---- MODULE Spec2Model ----
(***************************************************************************)
(* Model of the interactive image masker: Sketcher (src/src/sketcher.py)   *)
(* and ImageMasker (src/src/masker.py).                                    *)
(*                                                                         *)
(* An image is a record [shape |-> <<height, width>>, px |-> f] where f    *)
(* maps every cell <<x, y>> of the image to its value: a BGR triple for a  *)
(* colour image, a number 0..255 for the single-channel mask.              *)
(*                                                                         *)
(* ImageMasker.mask and Sketcher.mask are one numpy array (the masker      *)
(* hands its array to the sketcher, which keeps the reference), hence one  *)
(* variable.  masker.py names the class "sketcher" where sketcher.py       *)
(* defines "Sketcher"; the model reads the call as the constructor of the  *)
(* class of sketcher.py.  The display buffers (display_image,              *)
(* original_image) are written by update_display only and read by no       *)
(* operation modelled here; they are not part of the state.                *)
(***************************************************************************)
EXTENDS Integers, Sequences, FiniteSets, TLC

VARIABLES
    Isrc,               \* ImageMasker.Isrc: the source colour image
    mask,               \* ImageMasker.mask / Sketcher.mask
    Ioutput,            \* ImageMasker.Ioutput: last composite, or NoImage
    saved,              \* the image handed to cv2.imwrite last, or NoImage
    brush_size,         \* Sketcher.brush_size
    mask_color,         \* Sketcher.mask_color
    drawing,            \* Sketcher.drawing
    last_point,         \* Sketcher.last_point: <<x, y>> or None
    current_mouse_pos,  \* Sketcher.current_mouse_pos: <<x, y>> or None
    ant_offset,         \* Sketcher.ant_offset, in half pixels (0.5 = 1)
    input               \* the event or key dispatched last: [kind, arg]

vars == <<Isrc, mask, Ioutput, saved, brush_size, mask_color, drawing,
          last_point, current_mouse_pos, ant_offset, input>>

None == "None"
\* None where an image is expected
NoImage == [shape |-> <<0, 0>>, px |-> <<>>]

(***************************************************************************)
(* Bounds of the model.                                                    *)
(***************************************************************************)
\* Pointer positions reach Margin cells beyond the image on every side.
Margin == 1
\* Largest brush radius the drawing specifications let the keys reach.
BrushCap == 3
\* Largest |delta| handed to change_brush_size in SpecKeys.
MaxDelta == 52

(***************************************************************************)
(* Program constants.                                                      *)
(***************************************************************************)
DefaultBrush == 10      \* Sketcher.__init__: brush_size=10
MinBrush == 1           \* set_brush_size: max(1, ...)
MaxBrush == 50          \* set_brush_size: min(50, ...)
AntStep == 1            \* animate_ants: + 0.5, in half pixels
PatternLen == 24        \* animate_ants: % 12, in half pixels
White == 255            \* Sketcher.__init__: mask_color = 255
KeyStep == 2            \* run: change_brush_size(2) / change_brush_size(-2)

(***************************************************************************)
(* Images.                                                                 *)
(***************************************************************************)
Height(img) == img.shape[1]
Width(img) == img.shape[2]
Cells(w, h) == (0 .. w - 1) \X (0 .. h - 1)

\* np.zeros((height, width), dtype=np.uint8)
Zeros(h, w) == [shape |-> <<h, w>>, px |-> [c \in Cells(w, h) |-> 0]]

Abs(n) == IF n < 0 THEN -n ELSE n
Max(a, b) == IF a >= b THEN a ELSE b
Min(a, b) == IF a <= b THEN a ELSE b

\* int(np.sqrt(n)) for n >= 0: the largest k with k*k <= n.
ISqrt(n) == CHOOSE k \in 0 .. n : k * k <= n /\ (k + 1) * (k + 1) > n

\* int(a / n) for n > 0: Python's int() truncates towards zero.
TruncDiv(a, n) == IF a >= 0 THEN a \div n ELSE -((-a) \div n)

\* A colour given to a drawing call on a uint8 image is saturated to 0..255.
Saturate(v) == Max(0, Min(255, v))

(***************************************************************************)
(* cv2.circle(img, center, radius, color, -1): the filled circle OpenCV    *)
(* draws for thickness < 0, line type 8 and shift 0.  Its midpoint loop    *)
(* walks (dx, dy) from (radius, 0) while dx >= dy and fills, for each      *)
(* pair, the rows center.y -+ dy over center.x -+ dx and the rows          *)
(* center.y -+ dx over center.x -+ dy, clipped to the image.               *)
(* A span <<a, b>> stands for the rows at distance a, filled to distance b.*)
(***************************************************************************)
RECURSIVE CircleLoop(_, _, _, _, _)
CircleLoop(dx, dy, err, plus, minus) ==
    IF dx < dy THEN {}
    ELSE LET err1 == err + plus
             step == err1 > 0
         IN  {<<dy, dx>>, <<dx, dy>>} \cup
             CircleLoop(IF step THEN dx - 1 ELSE dx,
                        dy + 1,
                        IF step THEN err1 - minus ELSE err1,
                        plus + 2,
                        IF step THEN minus - 2 ELSE minus)

CircleSpans(radius) == CircleLoop(radius, 0, 0, 1, 2 * radius - 1)

Covered(c, center, spans) ==
    \E s \in spans : /\ Abs(c[2] - center[2]) = s[1]
                     /\ Abs(c[1] - center[1]) <= s[2]

Circle(img, center, radius, color) ==
    LET spans == CircleSpans(radius)
    IN  [img EXCEPT !.px = [c \in DOMAIN img.px |->
            IF Covered(c, center, spans) THEN Saturate(color) ELSE img.px[c]]]

(***************************************************************************)
(* Sketcher.draw_at_point and Sketcher.draw_line, as the mask they leave.  *)
(***************************************************************************)
\* Mutant: the stamp centred on the position clamped into the image.
draw_at_point_clamped(x, y) ==
    Circle(mask,
           <<Max(0, Min(Width(mask) - 1, x)), Max(0, Min(Height(mask) - 1, y))>>,
           brush_size, mask_color)

\* Mutant: the brush radius handed to cv2.circle as the colour too.
draw_at_point_radius_as_colour(x, y) == Circle(mask, <<x, y>>, brush_size, brush_size)

draw_at_point(x, y) == Circle(mask, <<x, y>>, brush_size, mask_color)

\* Mutant: the step grows with the brush three times too fast.
StepSize_times3(size) == Max(size * 3, 1)

\* max(self.brush_size // 3, 1)
StepSize(size) == Max(size \div 3, 1)

\* The centres draw_line stamps: i in range(num_steps + 1), t = i / num_steps,
\* (int(x1 + t * (x2 - x1)), int(y1 + t * (y2 - y1))).  The product is
\* exact in floating point for every num_steps below 22, which the
\* pointer positions of the model stay far below.
LinePoints(pt1, pt2, size) ==
    LET distance == ISqrt((pt2[1] - pt1[1]) * (pt2[1] - pt1[1])
                          + (pt2[2] - pt1[2]) * (pt2[2] - pt1[2]))
        num_steps == Max(distance \div StepSize(size), 1)
    IN  IF distance = 0 THEN {pt2}
        ELSE {<<TruncDiv(pt1[1] * num_steps + i * (pt2[1] - pt1[1]), num_steps),
                TruncDiv(pt1[2] * num_steps + i * (pt2[2] - pt1[2]), num_steps)>> :
              i \in 0 .. num_steps}

draw_line(pt1, pt2) ==
    LET spans == CircleSpans(brush_size)
        pts == LinePoints(pt1, pt2, brush_size)
    IN  [mask EXCEPT !.px = [c \in DOMAIN mask.px |->
            IF \E q \in pts : Covered(c, q, spans)
            THEN Saturate(mask_color) ELSE mask.px[c]]]

(***************************************************************************)
(* The compositor of ImageMasker.process_mask_and_display.                 *)
(***************************************************************************)
\* cv2.cvtColor(BGR2GRAY) on 8-bit pixels: fixed point, 14 fractional bits.
Gray(p) == (p[1] * 1868 + p[2] * 9617 + p[3] * 4899 + 8192) \div 16384

\* cv2.cvtColor(GRAY2BGR): the grey value in each of the three channels.
Gray3(p) == <<Gray(p), Gray(p), Gray(p)>>

RECURSIVE BitOr(_, _)
BitOr(a, b) ==
    IF a = 0 THEN b
    ELSE IF b = 0 THEN a
    ELSE 2 * BitOr(a \div 2, b \div 2) + Max(a % 2, b % 2)

\* Mutant: the mask used uninverted for the grey region.
BitNot_identity(v) == v

\* cv2.bitwise_not on uint8
BitNot(v) == 255 - v

\* cv2.bitwise_and(src, src, mask=m): src where m is non-zero, else 0.
Masked(p, m) == IF m # 0 THEN p ELSE <<0, 0, 0>>

Composite(src, m) ==
    [shape |-> src.shape,
     px |-> [c \in DOMAIN src.px |->
        LET color_region == Masked(src.px[c], m.px[c])
            gray_region == Masked(Gray3(src.px[c]), BitNot(m.px[c]))
        IN  <<BitOr(color_region[1], gray_region[1]),
              BitOr(color_region[2], gray_region[2]),
              BitOr(color_region[3], gray_region[3])>>]]

(***************************************************************************)
(* Sketcher: the mouse callback and the public setters.                    *)
(***************************************************************************)
Running == input.kind # "q"

\* Mutant: pointer-up ends the stroke but keeps its last point.
mouse_callback_keeps_last_point(event, x, y) ==
    /\ Running
    /\ current_mouse_pos' = <<x, y>>
    /\ IF event = "LBUTTONDOWN"
       THEN /\ drawing' = TRUE
            /\ last_point' = <<x, y>>
            /\ mask' = Circle(mask, <<x, y>>, brush_size, mask_color)
       ELSE IF event = "MOUSEMOVE" /\ drawing
       THEN /\ mask' = IF last_point # None
                       THEN draw_line(last_point, <<x, y>>)
                       ELSE mask
            /\ last_point' = <<x, y>>
            /\ UNCHANGED drawing
       ELSE IF event = "LBUTTONUP"
       THEN /\ drawing' = FALSE
            /\ UNCHANGED <<mask, last_point>>
       ELSE UNCHANGED <<mask, drawing, last_point>>
    /\ input' = [kind |-> event, arg |-> <<x, y>>]
    /\ UNCHANGED <<Isrc, Ioutput, saved, brush_size, mask_color, ant_offset>>

mouse_callback(event, x, y) ==
    /\ Running
    /\ current_mouse_pos' = <<x, y>>
    /\ IF event = "LBUTTONDOWN"
       THEN /\ drawing' = TRUE
            /\ last_point' = <<x, y>>
            /\ mask' = draw_at_point(x, y)
       ELSE IF event = "MOUSEMOVE"
       THEN IF drawing
            THEN /\ mask' = IF last_point # None
                            THEN draw_line(last_point, <<x, y>>)
                            ELSE mask
                 /\ last_point' = <<x, y>>
                 /\ UNCHANGED drawing
            ELSE UNCHANGED <<mask, drawing, last_point>>
       ELSE IF event = "LBUTTONUP"
       THEN /\ drawing' = FALSE
            /\ last_point' = None
            /\ UNCHANGED mask
       ELSE UNCHANGED <<mask, drawing, last_point>>
    /\ input' = [kind |-> event, arg |-> <<x, y>>]
    /\ UNCHANGED <<Isrc, Ioutput, saved, brush_size, mask_color, ant_offset>>

\* Mutant: the lower bound forgotten.
ClampBrush_upper_only(size) == Min(MaxBrush, size)

\* max(1, min(50, size))
ClampBrush(size) == Max(MinBrush, Min(MaxBrush, size))

set_brush_size(size) ==
    /\ Running
    /\ brush_size' = ClampBrush(size)
    /\ input' = [kind |-> "set_brush_size", arg |-> size]
    /\ UNCHANGED <<Isrc, mask, Ioutput, saved, mask_color, drawing,
                   last_point, current_mouse_pos, ant_offset>>

\* self.mask.fill(0)
Filled0(m) == [m EXCEPT !.px = [c \in DOMAIN m.px |-> 0]]

clear_drawing ==
    /\ Running
    /\ mask' = Filled0(mask)
    /\ drawing' = FALSE
    /\ last_point' = None
    /\ input' = [kind |-> "clear_drawing", arg |-> None]
    /\ UNCHANGED <<Isrc, Ioutput, saved, brush_size, mask_color,
                   current_mouse_pos, ant_offset>>

set_mask_color(color) ==
    /\ Running
    /\ mask_color' = color
    /\ input' = [kind |-> "set_mask_color", arg |-> color]
    /\ UNCHANGED <<Isrc, mask, Ioutput, saved, brush_size, drawing,
                   last_point, current_mouse_pos, ant_offset>>

\* update_images(display_image, m): the sketcher draws on m from now on.
update_images(m) ==
    /\ Running
    /\ mask' = m
    /\ drawing' = FALSE
    /\ last_point' = None
    /\ input' = [kind |-> "update_images", arg |-> m.shape]
    /\ UNCHANGED <<Isrc, Ioutput, saved, brush_size, mask_color,
                   current_mouse_pos, ant_offset>>

\* (self.ant_offset + 0.5) % 12
animate_ants ==
    /\ Running
    /\ ant_offset' = (ant_offset + AntStep) % PatternLen
    /\ input' = [kind |-> "animate_ants", arg |-> None]
    /\ UNCHANGED <<Isrc, mask, Ioutput, saved, brush_size, mask_color,
                   drawing, last_point, current_mouse_pos>>

(***************************************************************************)
(* ImageMasker: one iteration of the loop of run per key, and              *)
(* change_brush_size.  waitKey(30) returns a key or times out; the         *)
(* iteration shows the image, waits and dispatches on the key.             *)
(***************************************************************************)
\* 'r': process_mask_and_display
KeyR ==
    /\ Running
    /\ Ioutput' = Composite(Isrc, mask)
    /\ input' = [kind |-> "r", arg |-> None]
    /\ UNCHANGED <<Isrc, mask, saved, brush_size, mask_color, drawing,
                   last_point, current_mouse_pos, ant_offset>>

\* Mutant: the mask cleared, the stroke in progress left as it is.
KeyC_keeps_stroke ==
    /\ Running
    /\ mask' = Filled0(mask)
    /\ input' = [kind |-> "c", arg |-> None]
    /\ UNCHANGED <<Isrc, Ioutput, saved, brush_size, mask_color, drawing,
                   last_point, current_mouse_pos, ant_offset>>

\* 'c': clear_mask = clear_drawing, then update_images with the same mask
KeyC ==
    /\ Running
    /\ mask' = Filled0(mask)
    /\ drawing' = FALSE
    /\ last_point' = None
    /\ input' = [kind |-> "c", arg |-> None]
    /\ UNCHANGED <<Isrc, Ioutput, saved, brush_size, mask_color,
                   current_mouse_pos, ant_offset>>

\* Mutant: the save composes the mask as it is and writes that.
save_output_fresh_composite == Composite(Isrc, mask)

\* save_output: imwrite only when an output exists
save_output == IF Ioutput # NoImage THEN Ioutput ELSE saved

\* 's'
KeyS ==
    /\ Running
    /\ saved' = save_output
    /\ input' = [kind |-> "s", arg |-> None]
    /\ UNCHANGED <<Isrc, mask, Ioutput, brush_size, mask_color, drawing,
                   last_point, current_mouse_pos, ant_offset>>

\* Mutant: a brush change ends the stroke in progress.
change_brush_size_ends_stroke(key, delta) ==
    /\ Running
    /\ brush_size' = ClampBrush(brush_size + delta)
    /\ drawing' = FALSE
    /\ last_point' = None
    /\ input' = [kind |-> key, arg |-> delta]
    /\ UNCHANGED <<Isrc, mask, Ioutput, saved, mask_color,
                   current_mouse_pos, ant_offset>>

\* change_brush_size(delta): set_brush_size(get_brush_size() + delta)
change_brush_size(key, delta) ==
    /\ Running
    /\ brush_size' = ClampBrush(brush_size + delta)
    /\ input' = [kind |-> key, arg |-> delta]
    /\ UNCHANGED <<Isrc, mask, Ioutput, saved, mask_color, drawing,
                   last_point, current_mouse_pos, ant_offset>>

\* '+' or '='
KeyPlus == change_brush_size("+", KeyStep)

\* '-' or '_'
KeyMinus == change_brush_size("-", -KeyStep)

\* 'i' (get_mask_stats, printed) and 'm' (the mask shown): no state changes
KeyView(key) ==
    /\ Running
    /\ input' = [kind |-> key, arg |-> None]
    /\ UNCHANGED <<Isrc, mask, Ioutput, saved, brush_size, mask_color,
                   drawing, last_point, current_mouse_pos, ant_offset>>

\* waitKey timed out: a frame with no key.  run never calls animate_ants.
NoKey ==
    /\ Running
    /\ input' = [kind |-> "none", arg |-> None]
    /\ UNCHANGED <<Isrc, mask, Ioutput, saved, brush_size, mask_color,
                   drawing, last_point, current_mouse_pos, ant_offset>>

\* ESC or 'q': the loop ends
KeyQ ==
    /\ Running
    /\ input' = [kind |-> "q", arg |-> None]
    /\ UNCHANGED <<Isrc, mask, Ioutput, saved, brush_size, mask_color,
                   drawing, last_point, current_mouse_pos, ant_offset>>

(***************************************************************************)
(* The state after ImageMasker.__init__ on image img, the sketcher built   *)
(* with brush radius size.                                                 *)
(***************************************************************************)
Constructed(img, size) ==
    /\ Isrc = img
    /\ mask = Zeros(Height(img), Width(img))
    /\ Ioutput = NoImage
    /\ saved = NoImage
    /\ brush_size = size
    /\ mask_color = White
    /\ drawing = FALSE
    /\ last_point = None
    /\ current_mouse_pos = None
    /\ ant_offset = 0
    /\ input = [kind |-> "init", arg |-> None]

UniformImage(w, h, p) == [shape |-> <<h, w>>, px |-> [c \in Cells(w, h) |-> p]]

\* The positions the host reports: the image and Margin cells around it.
PointerPositions(img) ==
    (-Margin .. Width(img) - 1 + Margin) \X (-Margin .. Height(img) - 1 + Margin)

InBounds(pt, img) ==
    /\ 0 <= pt[1] /\ pt[1] < Width(img)
    /\ 0 <= pt[2] /\ pt[2] < Height(img)

(***************************************************************************)
(* SpecDraw: a drawing session.  Pointer events anywhere in and around the *)
(* image, clear, the brush keys (radius kept within 1 .. BrushCap), frames *)
(* with no key.                                                            *)
(***************************************************************************)
\* The source image of the drawing sessions: 3 wide, 2 high, black.
DrawImage == UniformImage(3, 2, <<0, 0, 0>>)

InitDraw == \E size \in 1 .. BrushCap : Constructed(DrawImage, size)

LButtonDown == \E pt \in PointerPositions(Isrc) : mouse_callback("LBUTTONDOWN", pt[1], pt[2])
MouseMove == \E pt \in PointerPositions(Isrc) : mouse_callback("MOUSEMOVE", pt[1], pt[2])
LButtonUp == \E pt \in PointerPositions(Isrc) : mouse_callback("LBUTTONUP", pt[1], pt[2])
KeyPlusCapped == brush_size + KeyStep <= BrushCap /\ KeyPlus

NextDraw ==
    \/ LButtonDown
    \/ MouseMove
    \/ LButtonUp
    \/ KeyC
    \/ KeyPlusCapped
    \/ KeyMinus
    \/ NoKey

SpecDraw == InitDraw /\ [][NextDraw]_vars

(***************************************************************************)
(* SpecKeys: a session of keys only, from the default brush radius.        *)
(* change_brush_size is public and takes any delta; the keys give +2, -2.  *)
(***************************************************************************)
InitKeys == Constructed(DrawImage, DefaultBrush)

ChangeBrush == \E delta \in -MaxDelta .. MaxDelta : change_brush_size("change_brush_size", delta)
KeyI == KeyView("i")
KeyM == KeyView("m")

NextKeys ==
    \/ KeyPlus
    \/ KeyMinus
    \/ ChangeBrush
    \/ KeyC
    \/ KeyI
    \/ KeyM
    \/ NoKey
    \/ KeyQ

SpecKeys == InitKeys /\ [][NextKeys]_vars

(***************************************************************************)
(* SpecComposite: strokes inside a small colour image, composite, save     *)
(* and clear.                                                              *)
(***************************************************************************)
Palette == << <<255, 0, 0>>, <<0, 255, 0>>, <<0, 0, 255>>, <<255, 255, 255>>,
              <<10, 200, 90>> >>

\* The w x h image whose cells take the palette's colours in turn from k.
PaletteImage(w, h, k) ==
    [shape |-> <<h, w>>,
     px |-> [c \in Cells(w, h) |-> Palette[((c[1] + w * c[2] + k) % Len(Palette)) + 1]]]

SourceImages == {PaletteImage(2, 2, 0), PaletteImage(2, 2, 3), PaletteImage(3, 1, 1),
                 UniformImage(2, 2, <<10, 200, 90>>)}

InsidePositions(img) == Cells(Width(img), Height(img))

InitComposite == \E img \in SourceImages : Constructed(img, MinBrush)

LButtonDownIn == \E pt \in InsidePositions(Isrc) : mouse_callback("LBUTTONDOWN", pt[1], pt[2])
MouseMoveIn == \E pt \in InsidePositions(Isrc) : mouse_callback("MOUSEMOVE", pt[1], pt[2])
LButtonUpIn == \E pt \in InsidePositions(Isrc) : mouse_callback("LBUTTONUP", pt[1], pt[2])

NextComposite ==
    \/ LButtonDownIn
    \/ MouseMoveIn
    \/ LButtonUpIn
    \/ KeyR
    \/ KeyS
    \/ KeyC

SpecComposite == InitComposite /\ [][NextComposite]_vars

(***************************************************************************)
(* SpecSketcher: the Sketcher driven through its public methods by any     *)
(* host: pointer events, set_brush_size, set_mask_color, update_images,    *)
(* clear_drawing, animate_ants.                                            *)
(***************************************************************************)
SketcherImage == UniformImage(2, 2, <<0, 0, 0>>)

MaskColors == {0, 128, White}

\* The masks a host may hand to update_images: the one in use, a fresh
\* one of the same shape, a fresh one of another shape.
HostMasks == {mask, Zeros(2, 2), Zeros(1, 2)}

InitSketcher == \E size \in 1 .. BrushCap : Constructed(SketcherImage, size)

SetBrushSize == \E size \in 0 .. BrushCap : set_brush_size(size)
SetMaskColor == \E color \in MaskColors : set_mask_color(color)
UpdateImages == \E m \in HostMasks : update_images(m)

NextSketcher ==
    \/ LButtonDownIn
    \/ MouseMoveIn
    \/ LButtonUpIn
    \/ SetBrushSize
    \/ SetMaskColor
    \/ UpdateImages
    \/ clear_drawing
    \/ animate_ants

SpecSketcher == InitSketcher /\ [][NextSketcher]_vars

(***************************************************************************)
(* SpecLine: strokes whose points all lie inside the image, on a small     *)
(* image with a small brush and on long rows with brushes whose step       *)
(* sizes are 2 and 3.                                                      *)
(***************************************************************************)
LineCases == {<<UniformImage(6, 2, <<0, 0, 0>>), 1>>,
              <<UniformImage(6, 2, <<0, 0, 0>>), 2>>,
              <<UniformImage(20, 1, <<0, 0, 0>>), 6>>,
              <<UniformImage(21, 1, <<0, 0, 0>>), 9>>}

InitLine == \E case \in LineCases : Constructed(case[1], case[2])

NextLine ==
    \/ LButtonDownIn
    \/ MouseMoveIn
    \/ LButtonUpIn
    \/ KeyC

SpecLine == InitLine /\ [][NextLine]_vars

(***************************************************************************)
(* Vocabulary of the properties.                                           *)
(***************************************************************************)
Set255(m) == {c \in DOMAIN m.px : m.px[c] = 255}

\* The cells of m within Euclidean distance r of center.
EuclidDisc(center, r, m) ==
    {c \in DOMAIN m.px :
        (c[1] - center[1]) * (c[1] - center[1])
        + (c[2] - center[2]) * (c[2] - center[2]) <= r * r}

\* The cells of m within distance r of a lattice point of the rectangle
\* spanned by p0 and p1.
NearSegment(p0, p1, r, m) ==
    UNION {EuclidDisc(<<x, y>>, r, m) :
           x \in Min(p0[1], p1[1]) .. Max(p0[1], p1[1]),
           y \in Min(p0[2], p1[2]) .. Max(p0[2], p1[2])}

IsDown(i) == i.kind = "LBUTTONDOWN"
IsMove(i) == i.kind = "MOUSEMOVE"
IsUp(i) == i.kind = "LBUTTONUP"
IsPointer(i) == IsDown(i) \/ IsMove(i) \/ IsUp(i)
IsBrushCommand(i) == i.kind \in {"+", "-", "change_brush_size"}

(***************************************************************************)
(* C1.  The session follows the Idle/Drawing table: pointer-down leaves    *)
(* the session Drawing, stamps a circle of the brush radius at the point   *)
(* and records the point as last point; pointer-move while Drawing keeps   *)
(* every set cell, sets the stamps at the last point and at the new point  *)
(* and nothing farther than the radius from the segment between them, and  *)
(* records the new point; pointer-move while Idle changes nothing of the   *)
(* mask or the session; pointer-up leaves the session Idle with no last    *)
(* point and the mask as it was.                                           *)
(***************************************************************************)
C1_TransitionTable ==
    [][/\ IsDown(input') =>
            /\ drawing'
            /\ last_point' = input'.arg
            /\ Set255(mask') = Set255(mask) \cup EuclidDisc(input'.arg, brush_size, mask)
       /\ (IsMove(input') /\ drawing) =>
            /\ drawing'
            /\ last_point' = input'.arg
            /\ Set255(mask) \subseteq Set255(mask')
            /\ EuclidDisc(last_point, brush_size, mask) \subseteq Set255(mask')
            /\ EuclidDisc(input'.arg, brush_size, mask) \subseteq Set255(mask')
            /\ Set255(mask') \ Set255(mask)
                  \subseteq NearSegment(last_point, input'.arg, brush_size, mask)
       /\ (IsMove(input') /\ ~drawing) =>
            /\ ~drawing'
            /\ last_point' = None
            /\ mask' = mask
       /\ IsUp(input') =>
            /\ ~drawing'
            /\ last_point' = None
            /\ mask' = mask
      ]_vars

\* A segment has been rasterized in a stroke that left part of the mask unset.
C1_Witness ==
    /\ IsMove(input)
    /\ drawing
    /\ Set255(mask) # {}
    /\ Set255(mask) # DOMAIN mask.px
    /\ Cardinality(Set255(mask)) > 1

(***************************************************************************)
(* C2.  clear() from any state leaves every mask cell 0, the session Idle  *)
(* with no last point, and the brush radius, the source image and the      *)
(* mask's shape as they were; a clear() right after a clear() changes      *)
(* nothing.                                                                *)
(***************************************************************************)
C2_Clear ==
    [][input'.kind = "c" =>
            /\ \A c \in DOMAIN mask'.px : mask'.px[c] = 0
            /\ Set255(mask') = {}
            /\ mask'.shape = mask.shape
            /\ ~drawing'
            /\ last_point' = None
            /\ brush_size' = brush_size
            /\ Isrc' = Isrc
            /\ (input.kind = "c" => UNCHANGED vars)
      ]_vars

\* A clear has been issued after pointer events, with the brush changed.
C2_Witness ==
    /\ input.kind = "c"
    /\ current_mouse_pos # None
    /\ Set255(mask) = {}
    /\ brush_size = BrushCap

(***************************************************************************)
(* C3.  The brush radius is always in 1..50, and after each brush-size     *)
(* command it is the previous radius plus the delta, clamped to the        *)
(* nearest bound of 1..50; from 12 reached by +2, a -4 gives 8.            *)
(***************************************************************************)
C3_BrushClamped ==
    /\ [](brush_size \in 1 .. 50)
    /\ [][IsBrushCommand(input') =>
            LET want == brush_size + input'.arg
            IN  /\ brush_size' = IF want < 1 THEN 1 ELSE IF want > 50 THEN 50 ELSE want
                /\ (brush_size = 12 /\ input'.arg = -4) => brush_size' = 8
         ]_vars

\* The scenario's end: radius 8 after a -4.
C3_Witness ==
    /\ brush_size = 8
    /\ input.kind = "change_brush_size"
    /\ input.arg = -4

(***************************************************************************)
(* C4.  After RequestComposite the output has the source's shape and each  *)
(* pixel is the source pixel where the mask cell is 255 and the grey       *)
(* replicate of the source pixel elsewhere; with every cell 255 the output *)
(* is the source, with every cell 0 it is the all-grey image.              *)
(***************************************************************************)
GrayImage(src) == [shape |-> src.shape, px |-> [c \in DOMAIN src.px |-> Gray3(src.px[c])]]

Adjacent8(a, b) == Abs(a[1] - b[1]) <= 1 /\ Abs(a[2] - b[2]) <= 1

RECURSIVE Grow(_, _)
Grow(S, R) ==
    LET more == {c \in S \ R : \E d \in R : Adjacent8(c, d)}
    IN  IF more = {} THEN R ELSE Grow(S, R \cup more)

Connected8(S) == S = {} \/ Grow(S, {CHOOSE c \in S : TRUE}) = S

\* The cells of the stamps of the segment from p0 to p1: what the move
\* sets on an empty mask.
SegmentCells(p0, p1) ==
    LET spans == CircleSpans(brush_size)
        pts == LinePoints(p0, p1, brush_size)
    IN  {c \in DOMAIN mask.px : \E q \in pts : Covered(c, q, spans)}

C5_SegmentConnected ==
    [][(IsMove(input') /\ drawing /\ last_point # None
            /\ InBounds(last_point, Isrc) /\ InBounds(input'.arg, Isrc)) =>
            LET S == SegmentCells(last_point, input'.arg)
            IN  /\ S \subseteq Set255(mask')
                /\ Set255(mask') = Set255(mask) \cup S
                /\ EuclidDisc(last_point, brush_size, mask) \subseteq S
                /\ EuclidDisc(input'.arg, brush_size, mask) \subseteq S
                /\ Connected8(S)
      ]_vars

\* A segment longer than twice the brush radius has been rasterized: its
\* end stamps do not touch, the interpolated stamps join them.
C5_Witness ==
    /\ IsMove(input)
    /\ drawing
    /\ \E a \in Set255(mask) : \E b \in Set255(mask) :
          Abs(a[1] - b[1]) > 2 * brush_size + 2
    /\ Connected8(Set255(mask))
    /\ Set255(mask) # DOMAIN mask.px

(***************************************************************************)
(* C6 as stated.  The last point recorded for a stroke always lies inside  *)
(* the image: 0 <= x < width and 0 <= y < height.                          *)
(***************************************************************************)
C6_LastPointClamped == last_point # None => InBounds(last_point, Isrc)

(***************************************************************************)
(* C6 as amended.  A pointer event leaves the session running and ready    *)
(* for the next event, and its position is not clamped: the last point     *)
(* recorded is the position as reported, also                              *)
(* outside the image; a pointer-down stamps the circle centred on that     *)
(* position, of which only the cells inside the image are set; the mask    *)
(* keeps the shape of the source.                                          *)
(***************************************************************************)
C6_Unclamped ==
    /\ [](IsPointer(input) =>
            /\ Running
            /\ ENABLED LButtonDown
            /\ ENABLED MouseMove
            /\ ENABLED LButtonUp
            /\ ENABLED KeyC)
    /\ [][IsPointer(input') =>
            /\ current_mouse_pos' = input'.arg
            /\ (IsDown(input') \/ (IsMove(input') /\ drawing)) => last_point' = input'.arg
            /\ mask'.shape = Isrc.shape
            /\ DOMAIN mask'.px = Cells(Width(Isrc), Height(Isrc))
            /\ IsDown(input') =>
                  Set255(mask') = Set255(mask) \cup EuclidDisc(input'.arg, brush_size, mask)
         ]_vars

\* A stroke's last point lies outside the image and its stamp set cells
\* inside.
C6_Witness ==
    /\ drawing
    /\ last_point # None
    /\ ~InBounds(last_point, Isrc)
    /\ IsDown(input)
    /\ Set255(mask) # {}
    /\ Set255(mask) # DOMAIN mask.px

(***************************************************************************)
(* C7 as stated.  Every frame of the host loop advances the animation      *)
(* phase by 0.5 modulo 12.                                                 *)
(***************************************************************************)
C7_FrameAdvancesPhase ==
    [][input'.kind = "none" => ant_offset' = (ant_offset + AntStep) % PatternLen]_vars

(***************************************************************************)
(* C8 as stated.  RequestSave always persists an image, and for an unset   *)
(* mask the image it writes is the all-grey composite of the source.       *)
(***************************************************************************)
C8_SaveAlwaysPersists ==
    [][input'.kind = "s" =>
            /\ saved' # NoImage
            /\ (Set255(mask) = {} => saved' = GrayImage(Isrc))
      ]_vars

(***************************************************************************)
(* C8 as amended.  RequestSave is never refused and changes nothing but    *)
(* the file: with no composite made yet it writes nothing, otherwise it    *)
(* writes the output of the most recent RequestComposite as it is, the     *)
(* composite of the mask as it was at that request.  Only RequestComposite *)
(* changes that output.                                                    *)
(***************************************************************************)
C8_SaveWritesLastComposite ==
    /\ [](ENABLED KeyS)
    /\ [][/\ input'.kind = "s" =>
                /\ (Ioutput = NoImage => saved' = saved)
                /\ (Ioutput # NoImage => saved' = Ioutput)
                /\ Ioutput' = Ioutput
                /\ mask' = mask
          /\ Ioutput' # Ioutput => input'.kind = "r"
          /\ saved' # saved => input'.kind = "s"
         ]_vars

\* A save wrote a composite that is not the composite of the mask as it
\* is at the save.
C8_Witness ==
    /\ input.kind = "s"
    /\ saved # NoImage
    /\ saved = Ioutput
    /\ Set255(mask) = {}
    /\ saved # GrayImage(Isrc)

(***************************************************************************)
(* C9 as stated.  Every mask cell is 0 or 255 and the mask has the shape   *)
(* of the source image.                                                    *)
(***************************************************************************)
Binary(m) == \A c \in DOMAIN m.px : m.px[c] \in {0, 255}

C9_MaskBinarySameShape == Binary(mask) /\ mask.shape = Isrc.shape

(***************************************************************************)
(* C9 as amended.  With the mask colour 0 or 255, every operation other    *)
(* than update_images (which installs the mask the host hands it) takes a  *)
(* mask of cells 0 or 255 and of the source's shape to such a mask; the    *)
(* mask is 0 everywhere after construction.                                *)
(***************************************************************************)
C9_BinaryPreserved ==
    /\ (input.kind = "init" => Set255(mask) = {} /\ C9_MaskBinarySameShape)
    /\ [][(/\ Binary(mask)
           /\ mask.shape = Isrc.shape
           /\ mask_color \in {0, 255}
           /\ input'.kind # "update_images") =>
                /\ Binary(mask')
                /\ mask'.shape = Isrc.shape
                /\ DOMAIN mask'.px = Cells(Width(Isrc), Height(Isrc))
         ]_vars

\* Strokes with the colours 255 and 0 left a mask partly set.
C9_Witness ==
    /\ IsPointer(input)
    /\ mask_color = 0
    /\ Binary(mask)
    /\ mask.shape = Isrc.shape
    /\ Set255(mask) # {}
    /\ Set255(mask) # DOMAIN mask.px

(***************************************************************************)
(* C10.  A brush-size change is accepted in Idle and in Drawing and        *)
(* changes neither the mask nor the Idle/Drawing state nor the last point; *)
(* the stamps made afterwards have the new radius; under pointer events    *)
(* and brush-size changes a cell that is 255 stays 255.                    *)
(***************************************************************************)
C10_BrushChange ==
    /\ [](ENABLED KeyPlus /\ ENABLED KeyMinus)
    /\ [][/\ IsBrushCommand(input') =>
                /\ mask' = mask
                /\ drawing' = drawing
                /\ last_point' = last_point
          /\ (IsPointer(input') \/ IsBrushCommand(input')) =>
                Set255(mask) \subseteq Set255(mask')
          /\ IsDown(input') =>
                Set255(mask') = Set255(mask) \cup EuclidDisc(input'.arg, brush_size, mask)
          /\ (IsMove(input') /\ drawing) =>
                /\ EuclidDisc(input'.arg, brush_size, mask) \subseteq Set255(mask')
                /\ Set255(mask') \ Set255(mask)
                      \subseteq NearSegment(last_point, input'.arg, brush_size, mask)
         ]_vars

\* The brush was changed in the middle of a stroke.
C10_Witness ==
    /\ IsBrushCommand(input)
    /\ drawing
    /\ last_point # None
    /\ Set255(mask) # {}
    /\ Set255(mask) # DOMAIN mask.px

====
